---- MODULE Spec2Model ----
(***************************************************************************)
(* Locker / Rent consistency core of the bloqit parcel-locker service.     *)
(*                                                                         *)
(* The persistent state is the Prisma schema's three collections.  The     *)
(* Locker operations are LockerService (services/lockerService.ts), the    *)
(* HTTP outcome of a Rent operation is RentController                      *)
(* (controllers/rentController.ts).  RentService itself                    *)
(* (services/rentService.ts) is not among the sources; its four operations *)
(* are modelled from sections 4.2, 4.3 and 5 of the specification.         *)
(***************************************************************************)
EXTENDS Integers, Sequences, FiniteSets, TLC

(* ---- bounds ---- *)
MaxTime == 2
NumProcs == 1
NumCallers == 2

(* ---- identifier and input spaces ---- *)
BloqIds == {"B1"}
BloqInputs == {"B1", "B9"}
LockerIds == {"L1", "L2"}
RentIds == {"R1", "R2"}
\* the ids generateId draws from in Spec, and in the scenario specifications
MainRentIds == {"R1"}
ScenarioLockerIds == {"L1"}
Procs == 1..NumProcs
\* the simultaneous callers of the concurrency scenario
Callers == 1..NumCallers
InputSizes == {"M"}

(* ---- enumerations of the schema ---- *)
LockerStatus == {"OPEN", "CLOSED"}
RentSize == {"XS", "S", "M", "L", "XL"}
RentStatus == {"CREATED", "WAITING_DROPOFF", "WAITING_PICKUP", "DELIVERED"}

\* fault: WAITING_PICKUP declared before WAITING_DROPOFF
StatusRankSwapped(s) ==
    CASE s = "CREATED" -> 0
      [] s = "WAITING_PICKUP" -> 1
      [] s = "WAITING_DROPOFF" -> 2
      [] s = "DELIVERED" -> 3

\* position of a status in the enum's declaration order
StatusRank(s) ==
    CASE s = "CREATED" -> 0
      [] s = "WAITING_DROPOFF" -> 1
      [] s = "WAITING_PICKUP" -> 2
      [] s = "DELIVERED" -> 3

\* a nullable DateTime: <<>> is null, <<t>> is the instant t
NULL == <<>>
At(t) == <<t>>

VARIABLES bloqs, lockers, rents, now, inflight, last, script

vars == <<bloqs, lockers, rents, now, inflight, last, script>>

(* ---- repository predicates ---- *)
LockerExists(id) == id \in DOMAIN lockers
RentExists(id) == id \in DOMAIN rents

\* the Rent records referencing a Locker
RentsOf(lockerId) == {r \in DOMAIN rents : rents[r].lockerId = lockerId}

\* Rent.lockerId is @unique: an insert is rejected when the Locker is taken
LockerIdUnique(lockerId) == RentsOf(lockerId) = {}

\* fault: the delete of a referenced Locker is not restricted
DeleteUnrestricted(lockerId) == FALSE

\* the relation Rent.locker is required and has no onDelete action, under
\* relationMode = "prisma": a referenced Locker cannot be deleted
DeleteRestricted(lockerId) == RentsOf(lockerId) # {}

Put(table, id, rec) ==
    [x \in DOMAIN table \cup {id} |-> IF x = id THEN rec ELSE table[x]]

Remove(table, id) == [x \in DOMAIN table \ {id} |-> table[x]]

NewLocker(bloqId) ==
    [bloqId |-> bloqId, status |-> "CLOSED", isOccupied |-> FALSE]

Response(op, target, error, http) ==
    [op |-> op, target |-> target, error |-> error, http |-> http]

\* what a scenario has observed so far: the call sequence under way, the
\* Locker and Rent it is about, the calls issued and the responses received
Observed(phase, locker, fresh, rent, called, replies) ==
    [phase |-> phase, locker |-> locker, fresh |-> fresh, rent |-> rent,
     called |-> called, replies |-> replies]

Idle == Observed("idle", "-", FALSE, "-", {}, << >>)

Init ==
    /\ bloqs = BloqIds
    /\ lockers = << >>
    /\ rents = << >>
    /\ now = 1
    /\ inflight = << >>
    /\ last = Response("init", "-", "none", "-")
    /\ script = Idle

(* ======================= LockerService ================================= *)

\* createLockerService: first create with id1; on P2002 one more create
\* with id2, whose error is not caught
\* fault: a collision of the first id is not retried
CreateLockerErrorNoRetry(bloqId, id1, id2) ==
    IF bloqId \notin bloqs THEN "Error: Bloq not found"
    ELSE IF ~LockerExists(id1) THEN "none"
    ELSE "P2002"

CreateLockerError(bloqId, id1, id2) ==
    IF bloqId \notin bloqs THEN "Error: Bloq not found"
    ELSE IF ~LockerExists(id1) THEN "none"
    ELSE IF ~LockerExists(id2) THEN "none"
    ELSE "P2002"

CreateLockerId(id1, id2) == IF ~LockerExists(id1) THEN id1 ELSE id2

CreateLockerOp(bloqId, id1, id2) ==
    LET err == CreateLockerError(bloqId, id1, id2) IN
    /\ lockers' = IF err = "none"
                  THEN Put(lockers, CreateLockerId(id1, id2), NewLocker(bloqId))
                  ELSE lockers
    /\ last' = Response("createLocker",
                        IF err = "none" THEN CreateLockerId(id1, id2) ELSE "-",
                        err, "-")
    /\ UNCHANGED <<bloqs, rents, now, inflight>>

CreateLocker(bloqId, id1, id2) == CreateLockerOp(bloqId, id1, id2) /\ UNCHANGED script

\* fault: the status update also resets the occupancy flag
SetStatusResetting(locker, status) ==
    [locker EXCEPT !.status = status, !.isOccupied = FALSE]

\* updateStatusLockerService's write: data { status }
SetStatus(locker, status) == [locker EXCEPT !.status = status]

UpdateStatusLocker(id, status) ==
    /\ lockers' = IF LockerExists(id)
                  THEN [lockers EXCEPT ![id] = SetStatus(@, status)]
                  ELSE lockers
    /\ last' = Response("updateStatusLocker", id,
                        IF LockerExists(id) THEN "none" ELSE "P2025", "-")
    /\ UNCHANGED <<bloqs, rents, now, inflight, script>>

\* fault: the flag is written as true whatever the argument
SetOccupiedIgnoringFlag(locker, isOccupied) == [locker EXCEPT !.isOccupied = TRUE]

\* fault: the occupancy write is lost
SetOccupiedDropped(locker, isOccupied) == locker

\* occupyLockerService's write: data { isOccupied }
SetOccupied(locker, isOccupied) == [locker EXCEPT !.isOccupied = isOccupied]

OccupyLocker(id, isOccupied) ==
    /\ lockers' = IF LockerExists(id)
                  THEN [lockers EXCEPT ![id] = SetOccupied(@, isOccupied)]
                  ELSE lockers
    /\ last' = Response("occupyLocker", id,
                        IF LockerExists(id) THEN "none" ELSE "P2025", "-")
    /\ UNCHANGED <<bloqs, rents, now, inflight, script>>

DeleteLockerError(id) ==
    IF ~LockerExists(id) THEN "Error: Locker not found"
    ELSE IF DeleteRestricted(id) THEN "P2014"
    ELSE "none"

DeleteLocker(id) ==
    LET err == DeleteLockerError(id) IN
    /\ lockers' = IF err = "none" THEN Remove(lockers, id) ELSE lockers
    /\ last' = Response("deleteLocker", id, err, "-")
    /\ UNCHANGED <<bloqs, rents, now, inflight, script>>

(* ======================= RentService (specification 4.2, 4.3, 5) ======= *)

NewRent(lockerId, size) ==
    [lockerId |-> lockerId, size |-> size, status |-> "CREATED",
     droppedOffAt |-> NULL, pickedUpAt |-> NULL]

\* rent.create: P2002 when the id is taken or Rent.lockerId is not unique
RentCreateFails(id, lockerId) == RentExists(id) \/ ~LockerIdUnique(lockerId)

\* load and validate: the Locker is read and its occupancy tested
CreateRentReadError(lockerId) ==
    IF ~LockerExists(lockerId) THEN "Error: Locker not found"
    ELSE IF lockers[lockerId].isOccupied THEN "Error: Locker is already occupied"
    ELSE "none"

\* apply-both: the occupancy is compared again as part of the write; the
\* create is retried once with a fresh id before UnavailableError
CreateRentWriteError(lockerId, id1, id2) ==
    IF ~LockerExists(lockerId) THEN "Error: Locker not found"
    ELSE IF lockers[lockerId].isOccupied THEN "Error: Locker is already occupied"
    ELSE IF ~RentCreateFails(id1, lockerId) THEN "none"
    ELSE IF ~RentCreateFails(id2, lockerId) THEN "none"
    ELSE "UnavailableError"

CreateRentId(lockerId, id1, id2) ==
    IF ~RentCreateFails(id1, lockerId) THEN id1 ELSE id2

\* fault: a dropoff is also accepted before the Rent is dropoff-ready
RecordDropoffErrorLax(id) ==
    IF ~RentExists(id) THEN "NotFoundError"
    ELSE IF rents[id].status \notin {"CREATED", "WAITING_DROPOFF"}
         THEN "InvalidTransition"
    ELSE "none"

\* fault: the status test is made on a stale read, so that a Rent dropped
\* off a moment ago still passes it
RecordDropoffErrorStale(id) ==
    IF ~RentExists(id) THEN "NotFoundError"
    ELSE IF rents[id].status \notin {"WAITING_DROPOFF", "WAITING_PICKUP"}
         THEN "InvalidTransition"
    ELSE "none"

RecordDropoffError(id) ==
    IF ~RentExists(id) THEN "NotFoundError"
    ELSE IF rents[id].status # "WAITING_DROPOFF" THEN "InvalidTransition"
    ELSE "none"

RecordPickupError(id) ==
    IF ~RentExists(id) THEN "NotFoundError"
    ELSE IF rents[id].status # "WAITING_PICKUP" THEN "InvalidTransition"
    ELSE IF ~LockerExists(rents[id].lockerId) THEN "NotFoundError"
    ELSE "none"

UpdateRentStatusError(id) ==
    IF ~RentExists(id) THEN "NotFoundError" ELSE "none"

\* the Rent after a recorded dropoff
DroppedOff(rent) ==
    [rent EXCEPT !.status = "WAITING_PICKUP", !.droppedOffAt = At(now)]

\* the Rent after a recorded pickup
PickedUp(rent) ==
    [rent EXCEPT !.status = "DELIVERED", !.pickedUpAt = At(now)]

\* the Locker effect paired with a pickup
Freed(locker) == SetOccupied(locker, FALSE)

\* the Locker effect paired with a create
Occupied(locker) == SetOccupied(locker, TRUE)

\* fault: the setter keeps the ordering and drops a backward target
StatusSetForward(rent, status) ==
    IF StatusRank(status) > StatusRank(rent.status)
    THEN [rent EXCEPT !.status = status]
    ELSE rent

\* the general setter: the status alone is written
StatusSet(rent, status) == [rent EXCEPT !.status = status]

(* ======================= RentController ================================ *)

\* fault: the occupied-Locker message is not recognised
CreateRentHttpUnmatched(error) ==
    IF error = "none" THEN "201"
    ELSE IF error = "Error: Locker not found" THEN "404"
    ELSE "500"

CreateRentHttp(error) ==
    IF error = "none" THEN "201"
    ELSE IF error = "Error: Locker not found" THEN "404"
    ELSE IF error = "Error: Locker is already occupied" THEN "400"
    ELSE "500"

UpdateRentStatusHttp(error) == IF error = "none" THEN "200" ELSE "500"

RecordDropoffHttp(error) == IF error = "none" THEN "200" ELSE "500"

RecordPickupHttp(error) == IF error = "none" THEN "200" ELSE "500"

\* POST /api/rents/locker/:lockerId, up to the service's first await
CreateRentBeginOp(p, lockerId, size) ==
    LET err == CreateRentReadError(lockerId) IN
    /\ p \notin DOMAIN inflight
    /\ inflight' = IF err = "none"
                   THEN Put(inflight, p, [lockerId |-> lockerId, size |-> size])
                   ELSE inflight
    /\ last' = IF err = "none"
               THEN Response("createRentRead", lockerId, "none", "-")
               ELSE Response("createRent", lockerId, err, CreateRentHttp(err))
    /\ UNCHANGED <<bloqs, lockers, rents, now>>

\* POST /api/rents/locker/:lockerId, the write and the response
CreateRentCommitOp(p, id1, id2) ==
    /\ p \in DOMAIN inflight
    /\ LET lockerId == inflight[p].lockerId
           err == CreateRentWriteError(lockerId, id1, id2)
           id == CreateRentId(lockerId, id1, id2)
       IN /\ rents' = IF err = "none"
                      THEN Put(rents, id, NewRent(lockerId, inflight[p].size))
                      ELSE rents
          /\ lockers' = IF err = "none"
                        THEN [lockers EXCEPT ![lockerId] = Occupied(@)]
                        ELSE lockers
          /\ last' = Response("createRent", lockerId, err, CreateRentHttp(err))
    /\ inflight' = Remove(inflight, p)
    /\ UNCHANGED <<bloqs, now>>

\* PUT /api/rents/:id/status
UpdateRentStatusOp(id, status) ==
    LET err == UpdateRentStatusError(id) IN
    /\ rents' = IF err = "none"
                THEN [rents EXCEPT ![id] = StatusSet(@, status)]
                ELSE rents
    /\ last' = Response("updateStatus", id, err, UpdateRentStatusHttp(err))
    /\ UNCHANGED <<bloqs, lockers, now, inflight>>

\* PUT /api/rents/:id/dropoff
RecordDropoffOp(id) ==
    LET err == RecordDropoffError(id) IN
    /\ rents' = IF err = "none"
                THEN [rents EXCEPT ![id] = DroppedOff(@)]
                ELSE rents
    /\ last' = Response("recordDropoff", id, err, RecordDropoffHttp(err))
    /\ UNCHANGED <<bloqs, lockers, now, inflight>>

\* PUT /api/rents/:id/pickup
RecordPickupOp(id) ==
    LET err == RecordPickupError(id) IN
    /\ rents' = IF err = "none"
                THEN [rents EXCEPT ![id] = PickedUp(@)]
                ELSE rents
    /\ lockers' = IF err = "none"
                  THEN [lockers EXCEPT ![rents[id].lockerId] = Freed(@)]
                  ELSE lockers
    /\ last' = Response("recordPickup", id, err, RecordPickupHttp(err))
    /\ UNCHANGED <<bloqs, now, inflight>>

\* the clock read by "current time"
TickOp ==
    /\ now < MaxTime
    /\ now' = now + 1
    /\ last' = Response("tick", "-", "none", "-")
    /\ UNCHANGED <<bloqs, lockers, rents, inflight>>

(* ---- the operations as steps of the running service ---- *)
CreateRentBegin(p, lockerId, size) == CreateRentBeginOp(p, lockerId, size) /\ UNCHANGED script

CreateRentCommit(p, id1, id2) == CreateRentCommitOp(p, id1, id2) /\ UNCHANGED script

UpdateRentStatus(id, status) == UpdateRentStatusOp(id, status) /\ UNCHANGED script

RecordDropoff(id) == RecordDropoffOp(id) /\ UNCHANGED script

RecordPickup(id) == RecordPickupOp(id) /\ UNCHANGED script

Tick == TickOp /\ UNCHANGED script

\* one operation of the service, with identifiers drawn from the given sets
Step(Ls, Rs) ==
    \/ \E b \in BloqInputs, id1, id2 \in Ls : CreateLocker(b, id1, id2)
    \/ \E id \in Ls, s \in LockerStatus : UpdateStatusLocker(id, s)
    \/ \E id \in Ls, o \in BOOLEAN : OccupyLocker(id, o)
    \/ \E id \in Ls : DeleteLocker(id)
    \/ \E p \in Procs, l \in Ls, z \in InputSizes : CreateRentBegin(p, l, z)
    \/ \E p \in Procs, id1, id2 \in Rs : CreateRentCommit(p, id1, id2)
    \/ \E id \in Rs, s \in RentStatus : UpdateRentStatus(id, s)
    \/ \E id \in Rs : RecordDropoff(id)
    \/ \E id \in Rs : RecordPickup(id)
    \/ Tick

Next == Step(LockerIds, MainRentIds)

Spec == Init /\ [][Next]_vars

(* ---- repository faults (specification 5, 7) ---- *)

\* the repository times out under the write of createRent: the transaction
\* commits nothing and the caller is answered with the retryable error
CreateRentTimeout(p) ==
    /\ p \in DOMAIN inflight
    /\ last' = Response("createRent", inflight[p].lockerId, "UnavailableError",
                        CreateRentHttp("UnavailableError"))
    /\ inflight' = Remove(inflight, p)
    /\ UNCHANGED <<bloqs, lockers, rents, now, script>>

\* the repository times out under the write of recordPickup
RecordPickupTimeout(id) ==
    /\ RecordPickupError(id) = "none"
    /\ last' = Response("recordPickup", id, "UnavailableError",
                        RecordPickupHttp("UnavailableError"))
    /\ UNCHANGED <<bloqs, lockers, rents, now, inflight, script>>

NextFaults ==
    \/ Step(ScenarioLockerIds, MainRentIds)
    \/ \E p \in Procs : CreateRentTimeout(p)
    \/ \E id \in MainRentIds : RecordPickupTimeout(id)

SpecFaults == Init /\ [][NextFaults]_vars

(* ---- the read accessors and the validated status update ---- *)

\* a status the enumeration does not hold, beside those it holds
StatusInputs == RentStatus \cup {"LOST"}

\* getRentById: the service answers null for an id that does not resolve
\* and the controller turns null into 404 "Rent not found"
GetRentByIdHttp(id) == IF RentExists(id) THEN "200" ELSE "404"

GetRentById(id) ==
    /\ last' = Response("getRentById", id,
                        IF RentExists(id) THEN "none" ELSE "null",
                        GetRentByIdHttp(id))
    /\ UNCHANGED <<bloqs, lockers, rents, now, inflight, script>>

\* fault: the Locker is not looked up before its Rents are listed
GetRentsByLockerIdErrorUnchecked(id) == "none"

\* getRentsByLockerIdService: the Locker is looked up first
GetRentsByLockerIdError(id) ==
    IF ~LockerExists(id) THEN "Error: Locker not found" ELSE "none"

GetRentsByLockerId(id) ==
    /\ last' = Response("getRentsByLockerId", id, GetRentsByLockerIdError(id), "-")
    /\ UNCHANGED <<bloqs, lockers, rents, now, inflight, script>>

\* isOccupiedLockerService: the flag of the Locker, null when there is none
IsOccupiedLockerResult(id) ==
    IF ~LockerExists(id) THEN "null"
    ELSE IF lockers[id].isOccupied THEN "true" ELSE "false"

IsOccupiedLocker(id) ==
    /\ last' = Response("isOccupied", id, IsOccupiedLockerResult(id), "-")
    /\ UNCHANGED <<bloqs, lockers, rents, now, inflight, script>>

\* validateRequest(updateRentStatusSchema): a status outside the
\* enumeration is refused before the handler runs
UpdateRentStatusRejectOp(id) ==
    /\ last' = Response("updateStatus", id, "ValidationError", "400")
    /\ UNCHANGED <<bloqs, lockers, rents, now, inflight>>

\* PUT /api/rents/:id/status with the requested status kept on record
UpdateStatusCall(id, status) ==
    /\ IF status \in RentStatus
       THEN UpdateRentStatusOp(id, status)
       ELSE UpdateRentStatusRejectOp(id)
    /\ script' = Observed("updateStatus", "-", FALSE, id, {}, <<status>>)

NextApi ==
    \/ \E b \in BloqInputs, id1, id2 \in ScenarioLockerIds : CreateLocker(b, id1, id2)
    \/ \E id \in ScenarioLockerIds, s \in LockerStatus : UpdateStatusLocker(id, s)
    \/ \E id \in ScenarioLockerIds, o \in BOOLEAN : OccupyLocker(id, o)
    \/ \E id \in ScenarioLockerIds : DeleteLocker(id)
    \/ \E p \in Procs, l \in ScenarioLockerIds, z \in InputSizes : CreateRentBegin(p, l, z)
    \/ \E p \in Procs, id1, id2 \in MainRentIds : CreateRentCommit(p, id1, id2)
    \/ \E id \in MainRentIds, s \in StatusInputs : UpdateStatusCall(id, s)
    \/ \E id \in MainRentIds : RecordDropoff(id)
    \/ \E id \in MainRentIds : RecordPickup(id)
    \/ \E id \in MainRentIds : GetRentById(id)
    \/ \E id \in ScenarioLockerIds : GetRentsByLockerId(id)
    \/ \E id \in ScenarioLockerIds : IsOccupiedLocker(id)
    \/ Tick

SpecApi == Init /\ [][NextApi]_vars

(* ---- Locker creation with the generated ids kept on record ---- *)

\* createLockerService(bloqId), generateId yielding id1 and then id2
CreateLockerCall(bloqId, id1, id2) ==
    /\ CreateLockerOp(bloqId, id1, id2)
    /\ script' = Observed("createLocker", "-", FALSE, "-", {}, <<bloqId, id1, id2>>)

NextCreateLocker ==
    \/ \E b \in BloqInputs, id1, id2 \in LockerIds : CreateLockerCall(b, id1, id2)
    \/ \E id \in LockerIds, s \in LockerStatus : UpdateStatusLocker(id, s)
    \/ \E id \in LockerIds, o \in BOOLEAN : OccupyLocker(id, o)
    \/ \E id \in LockerIds : DeleteLocker(id)

SpecCreateLocker == Init /\ [][NextCreateLocker]_vars

(* ======================= scenarios ===================================== *)

ActiveStatus == {"CREATED", "WAITING_DROPOFF", "WAITING_PICKUP"}

\* the Locker exists, is flagged free and hosts no Rent that is under way
Unoccupied(l) ==
    /\ LockerExists(l)
    /\ ~lockers[l].isOccupied
    /\ \A r \in RentsOf(l) : rents[r].status \notin ActiveStatus

\* generateId yields an unused id within the two attempts of a create
FreshWithin(id1, id2) == ~RentExists(id1) \/ ~RentExists(id2)

\* the service between scenarios: Lockers are created and Rents are driven
\* through the lifecycle by the exposed operations, in the legal order
Lifecycle(Ls, Rs) ==
    \/ script = Idle /\ \E id1, id2 \in Ls : CreateLocker("B1", id1, id2)
    \/ script = Idle /\ \E p \in Procs, l \in Ls, z \in InputSizes :
                            CreateRentBegin(p, l, z)
    \/ script = Idle /\ \E p \in Procs, id1, id2 \in Rs :
                            CreateRentCommit(p, id1, id2)
    \/ script = Idle /\ \E id \in Rs : UpdateRentStatus(id, "WAITING_DROPOFF")
    \/ script = Idle /\ \E id \in Rs : RecordDropoff(id)
    \/ script = Idle /\ \E id \in Rs : RecordPickup(id)

\* round trip, the first call: createRent on an unoccupied Locker
RoundTripBegin(l, z) ==
    /\ script = Idle
    /\ inflight = << >>
    /\ Unoccupied(l)
    /\ CreateRentBeginOp(1, l, z)
    /\ script' = Observed("roundtrip", l, LockerIdUnique(l), "-", {}, << >>)

RoundTripCreate(id1, id2) ==
    /\ script.phase = "roundtrip"
    /\ script.replies = << >>
    /\ FreshWithin(id1, id2)
    /\ CreateRentCommitOp(1, id1, id2)
    /\ script' = [script EXCEPT
                    !.rent = CreateRentId(script.locker, id1, id2),
                    !.replies = Append(@, last'.http)]

\* the round trip goes on only while every call so far has succeeded
RoundTripAt(n) ==
    /\ script.phase = "roundtrip"
    /\ Len(script.replies) = n
    /\ \A i \in 1..n : script.replies[i] \in {"200", "201"}

RoundTripMove ==
    /\ RoundTripAt(1)
    /\ UpdateRentStatusOp(script.rent, "WAITING_DROPOFF")
    /\ script' = [script EXCEPT !.replies = Append(@, last'.http)]

RoundTripDropoff ==
    /\ RoundTripAt(2)
    /\ RecordDropoffOp(script.rent)
    /\ script' = [script EXCEPT !.replies = Append(@, last'.http)]

RoundTripPickup ==
    /\ RoundTripAt(3)
    /\ RecordPickupOp(script.rent)
    /\ script' = [script EXCEPT !.replies = Append(@, last'.http)]

\* race: caller p issues createRent on the scenario's Locker
RaceCall(p, l, z) ==
    /\ \/ script = Idle /\ inflight = << >> /\ Unoccupied(l)
       \/ script.phase = "race" /\ l = script.locker /\ p \notin script.called
    /\ CreateRentBeginOp(p, l, z)
    /\ script' = Observed("race", l,
                          IF script = Idle THEN LockerIdUnique(l) ELSE script.fresh,
                          "-", script.called \cup {p},
                          IF last'.op = "createRent"
                          THEN Append(script.replies, last'.http)
                          ELSE script.replies)

RaceCommit(p, id1, id2) ==
    /\ script.phase = "race"
    /\ FreshWithin(id1, id2)
    /\ CreateRentCommitOp(p, id1, id2)
    /\ script' = [script EXCEPT !.replies = Append(@, last'.http)]

\* concurrent dropoffs: caller c issues recordDropoff on the scenario's
\* Rent, which is in WAITING_DROPOFF when the first call arrives
DropoffCall(c, r) ==
    /\ \/ /\ script = Idle
          /\ RentExists(r)
          /\ rents[r].status = "WAITING_DROPOFF"
       \/ /\ script.phase = "dropoffs"
          /\ r = script.rent
          /\ c \notin script.called
    /\ RecordDropoffOp(r)
    /\ script' = Observed("dropoffs", rents[r].lockerId, LockerIdUnique(rents[r].lockerId),
                          r, script.called \cup {c},
                          Append(script.replies, last'.error))

NextDropoffRace ==
    \/ Lifecycle(ScenarioLockerIds, RentIds)
    \/ \E c \in Callers, r \in RentIds : DropoffCall(c, r)
    \/ Tick

SpecDropoffRace == Init /\ [][NextDropoffRace]_vars

NextRoundTrip ==
    \/ Lifecycle(ScenarioLockerIds, RentIds)
    \/ \E l \in ScenarioLockerIds, z \in InputSizes : RoundTripBegin(l, z)
    \/ \E id1, id2 \in RentIds : RoundTripCreate(id1, id2)
    \/ RoundTripMove
    \/ RoundTripDropoff
    \/ RoundTripPickup
    \/ Tick

SpecRoundTrip == Init /\ [][NextRoundTrip]_vars

NextRace ==
    \/ Lifecycle(ScenarioLockerIds, RentIds)
    \/ \E p \in Callers, l \in ScenarioLockerIds, z \in InputSizes : RaceCall(p, l, z)
    \/ \E p \in Callers, id1, id2 \in RentIds : RaceCommit(p, id1, id2)
    \/ Tick

SpecRace == Init /\ [][NextRace]_vars

(* ======================= properties ==================================== *)

HostsActiveRent(l) == \E r \in RentsOf(l) : rents[r].status \in ActiveStatus

\* C1: Invariant L1 - for every Locker, isOccupied is true exactly when the
\* Locker hosts a Rent in CREATED, WAITING_DROPOFF or WAITING_PICKUP.
InvariantL1 ==
    \A l \in DOMAIN lockers : lockers[l].isOccupied <=> HostsActiveRent(l)

RaceSuccesses ==
    {i \in 1..Len(script.replies) : script.replies[i] = "201"}

RaceConflicts ==
    {i \in 1..Len(script.replies) : script.replies[i] = "400"}

RaceOver ==
    /\ script.phase = "race"
    /\ script.called = Callers
    /\ Len(script.replies) = NumCallers

\* C2: simultaneous createRent calls on one initially-unoccupied Locker,
\* interleaved in any order, end with exactly one success and Conflict for
\* every other call; never two successes, never two Rents on the Locker.
RaceOneSuccessOneConflict ==
    script.phase = "race" =>
        /\ Cardinality(RaceSuccesses) <= 1
        /\ Cardinality(RentsOf(script.locker)) <= 1
        /\ RaceOver => /\ Cardinality(RaceSuccesses) = 1
                       /\ Cardinality(RaceConflicts) = NumCallers - 1

\* the same outcome, for a Locker that never hosted a Rent
RaceOnFreshLocker == script.fresh => RaceOneSuccessOneConflict

RaceFreshOver == RaceOver /\ script.fresh

RoundTripDone == script.phase = "roundtrip" /\ Len(script.replies) = 4

RoundTripEnd ==
    /\ ~lockers[script.locker].isOccupied
    /\ rents[script.rent].status = "DELIVERED"
    /\ rents[script.rent].droppedOffAt # NULL
    /\ rents[script.rent].pickedUpAt # NULL
    /\ rents[script.rent].droppedOffAt[1] <= rents[script.rent].pickedUpAt[1]

\* C6: from an unoccupied Locker, createRent, the move to WAITING_DROPOFF,
\* recordDropoff and recordPickup each succeed in that order, and leave the
\* Locker free and the Rent DELIVERED with droppedOffAt <= pickedUpAt.
RoundTripSucceeds ==
    script.phase = "roundtrip" =>
        /\ \A i \in 1..Len(script.replies) : script.replies[i] \in {"200", "201"}
        /\ RoundTripDone => RoundTripEnd

\* the same round trip, for a Locker that never hosted a Rent
RoundTripOnFreshLocker == script.fresh => RoundTripSucceeds

RoundTripFreshDone == RoundTripDone /\ script.fresh

(* ---- properties of single steps; last' is the response of the step ---- *)

Responded(op, target) == last'.op = op /\ last'.target = target

Succeeded(op, target) == Responded(op, target) /\ last'.error = "none"

StoreUnchanged == rents' = rents /\ lockers' = lockers

Kept(r) == r \in DOMAIN rents /\ r \in DOMAIN rents'

\* C3: createRent on a Locker whose isOccupied is true is answered with
\* Conflict ("Locker is already occupied", 400) and changes no Locker and no
\* Rent; a Rent is only ever created on a Locker whose isOccupied was false.
StepOccupiedConflict ==
    /\ \A l \in DOMAIN lockers :
          Responded("createRent", l) /\ lockers[l].isOccupied =>
              /\ last'.error = "Error: Locker is already occupied"
              /\ last'.http = "400"
              /\ StoreUnchanged
    /\ \A r \in DOMAIN rents' \ DOMAIN rents :
          /\ LockerExists(rents'[r].lockerId)
          /\ ~lockers[rents'[r].lockerId].isOccupied

CreateOnOccupiedConflicts == [][StepOccupiedConflict]_vars

CreateOnOccupiedSeen ==
    /\ last.op = "createRent"
    /\ last.http = "400"
    /\ LockerExists(last.target)
    /\ lockers[last.target].isOccupied
    /\ RentsOf(last.target) # {}

\* C4: recordDropoff succeeds exactly when the Rent is in WAITING_DROPOFF;
\* in any other status it fails with InvalidTransition and changes no field
\* of any Rent or Locker, so repeating the failed call changes nothing either.
StepDropoffStrict ==
    \A r \in DOMAIN rents :
        Responded("recordDropoff", r) =>
            IF rents[r].status = "WAITING_DROPOFF"
            THEN last'.error = "none"
            ELSE last'.error = "InvalidTransition" /\ StoreUnchanged

DropoffOnlyFromWaitingDropoff == [][StepDropoffStrict]_vars

DropoffRejectedSeen ==
    /\ last.op = "recordDropoff"
    /\ last.error = "InvalidTransition"
    /\ RentExists(last.target)
    /\ rents[last.target].status = "CREATED"

\* C5: recordPickup succeeds exactly when the Rent is in WAITING_PICKUP
\* (InvalidTransition and no change otherwise); the successful step itself
\* makes the Rent DELIVERED, sets pickedUpAt and frees the Rent's Locker.
StepPickupPaired ==
    \A r \in DOMAIN rents :
        Responded("recordPickup", r) =>
            IF rents[r].status = "WAITING_PICKUP"
            THEN /\ last'.error = "none"
                 /\ rents'[r].status = "DELIVERED"
                 /\ rents'[r].pickedUpAt = At(now)
                 /\ ~lockers'[rents[r].lockerId].isOccupied
            ELSE last'.error = "InvalidTransition" /\ StoreUnchanged

NoRegress(r) == StatusRank(rents'[r].status) >= StatusRank(rents[r].status)

AdvancesByOne(r) ==
    StatusRank(rents'[r].status) = StatusRank(rents[r].status) + 1

StrictAdvance(r) ==
    Succeeded("recordDropoff", r) \/ Succeeded("recordPickup", r) =>
        AdvancesByOne(r)

DeliveredIsTerminal ==
    [][\A r \in DOMAIN rents :
          /\ r \in DOMAIN rents'
          /\ rents[r].status = "DELIVERED" => rents'[r].status = "DELIVERED"]_vars

\* C9: Invariant R1 - droppedOffAt is set exactly when the status is
\* WAITING_PICKUP or later, whichever operation moved it there, and once set
\* it is never cleared or overwritten.
InvariantR1 ==
    [][/\ \A r \in DOMAIN rents' :
             rents'[r].droppedOffAt # NULL <=>
                 StatusRank(rents'[r].status) >= StatusRank("WAITING_PICKUP")
       /\ \A r \in DOMAIN rents :
             rents[r].droppedOffAt # NULL =>
                 Kept(r) /\ rents'[r].droppedOffAt = rents[r].droppedOffAt]_vars

\* C10: Invariant R2 - pickedUpAt is set exactly when the status is
\* DELIVERED, whichever operation moved it there, and once set it is never
\* cleared or overwritten.
InvariantR2 ==
    [][/\ \A r \in DOMAIN rents' :
             rents'[r].pickedUpAt # NULL <=> rents'[r].status = "DELIVERED"
       /\ \A r \in DOMAIN rents :
             rents[r].pickedUpAt # NULL =>
                 Kept(r) /\ rents'[r].pickedUpAt = rents[r].pickedUpAt]_vars

\* C11: after recordPickup has freed a Locker, a following createRent on the
\* same Locker succeeds and yields a second Rent in CREATED, the delivered
\* Rent's record being retained.
SecondRentAfterPickup ==
    (script.phase = "roundtrip" /\ ~script.fresh /\ Len(script.replies) = 1) =>
        /\ script.replies[1] = "201"
        /\ RentExists(script.rent)
        /\ rents[script.rent].lockerId = script.locker
        /\ rents[script.rent].status = "CREATED"
        /\ \E r \in RentsOf(script.locker) \ {script.rent} :
              rents[r].status = "DELIVERED"

\* a createRent answered on Locker l: on success a Rent bound to l has been
\* added and l is occupied, on an error nothing has been written
StepCreateWhole(l) ==
    Responded("createRent", l) =>
        IF last'.error = "none"
        THEN /\ \E r \in DOMAIN rents' \ DOMAIN rents : rents'[r].lockerId = l
             /\ l \in DOMAIN lockers' /\ lockers'[l].isOccupied
        ELSE StoreUnchanged

\* a recordPickup answered on Rent r: on success r is DELIVERED and its
\* Locker is free, on an error nothing has been written
StepPickupWhole(r) ==
    Responded("recordPickup", r) =>
        IF last'.error = "none"
        THEN /\ rents'[r].status = "DELIVERED"
             /\ ~lockers'[rents[r].lockerId].isOccupied
        ELSE StoreUnchanged

DropoffSuccesses == {i \in DOMAIN script.replies : script.replies[i] = "none"}

StepAbsentRentIs404(r) ==
    (/\ ~RentExists(r)
     /\ \/ Responded("recordDropoff", r)
        \/ Responded("recordPickup", r)
        \/ Responded("updateStatus", r)) => last'.http = "404"

\* a dropoff or pickup on a Rent in the wrong status is answered 400
StepWrongStatusIs400(r) ==
    \/ /\ RentExists(r) /\ rents[r].status # "WAITING_DROPOFF"
       /\ Responded("recordDropoff", r)
    \/ /\ RentExists(r) /\ rents[r].status # "WAITING_PICKUP"
       /\ Responded("recordPickup", r)
    => last'.http = "400"

\* C14: the error kinds reach the caller as distinguishable outcomes:
\* recordDropoff, recordPickup and updateStatus on an absent Rent answer
\* 404, a dropoff or pickup in the wrong status answers 400, and neither is
\* the 500 of a server error.
ErrorKindsDistinguished ==
    [][ \A r \in RentIds : StepAbsentRentIs404(r) /\ StepWrongStatusIs400(r) ]_vars

\* a createRent answered on Locker l, which existed with isOccupied false:
\* one Rent in CREATED bound to l is added and l is flagged occupied
StepCreateOnFree(l) ==
    (/\ Responded("createRent", l)
     /\ LockerExists(l)
     /\ ~lockers[l].isOccupied) =>
        /\ \E r \in RentIds \ DOMAIN rents, z \in RentSize :
              rents' = Put(rents, r, NewRent(l, z))
        /\ lockers' = [lockers EXCEPT ![l] = SetOccupied(@, TRUE)]

\* C15: createRent on an existing Locker with isOccupied false produces a
\* new Rent bound to that Locker, in CREATED with both timestamps unset,
\* and sets the Locker's isOccupied, every other Locker and Rent unchanged.
CreateOnFreeLockerSucceeds ==
    [][ \A l \in LockerIds : StepCreateOnFree(l) ]_vars

\* the status a call of updateStatus asked for
Requested == script'.replies[1]

\* a mutating call whose identifier does not resolve fails with NotFound
\* and writes nothing
StepAbsentMutation ==
    /\ \A l \in LockerIds :
          (Responded("createRent", l) /\ ~LockerExists(l)) =>
              /\ last'.error = "Error: Locker not found"
              /\ last'.http = "404"
              /\ StoreUnchanged
    /\ \A r \in RentIds :
          (/\ ~RentExists(r)
           /\ \/ Responded("recordDropoff", r)
              \/ Responded("recordPickup", r)
              \/ Responded("updateStatus", r) /\ Requested \in RentStatus) =>
              /\ last'.error = "NotFoundError"
              /\ StoreUnchanged

\* a read writes nothing, and answers not-found for an id that does not
\* resolve
StepRead ==
    /\ \A r \in RentIds :
          Responded("getRentById", r) =>
              /\ StoreUnchanged
              /\ ~RentExists(r) => last'.error = "null" /\ last'.http = "404"
    /\ \A l \in LockerIds :
          Responded("getRentsByLockerId", l) =>
              /\ StoreUnchanged
              /\ ~LockerExists(l) => last'.error = "Error: Locker not found"
    /\ \A l \in LockerIds :
          Responded("isOccupied", l) =>
              /\ StoreUnchanged
              /\ ~LockerExists(l) => last'.error = "null"

StepUpdateStatus(r) ==
    (Responded("updateStatus", r) /\ RentExists(r)) =>
        IF Requested \in RentStatus
        THEN /\ last'.error = "none"
             /\ rents' = [rents EXCEPT ![r].status = Requested]
             /\ lockers' = lockers
        ELSE /\ last'.error = "ValidationError"
             /\ StoreUnchanged

HostedRentDelivered(l) ==
    \E r \in RentsOf(l) :
        /\ rents[r].status # "DELIVERED"
        /\ Kept(r)
        /\ rents'[r].status = "DELIVERED"

\* C18: a Locker's isOccupied goes from true to false only in the step in
\* which its hosted Rent reaches DELIVERED; no other operation
\* (recordDropoff, a Locker status update, a failed call, a direct
\* occupancy update) frees an occupied Locker.
FreedOnlyOnDelivery ==
    [][ \A l \in LockerIds :
          (/\ LockerExists(l) /\ lockers[l].isOccupied
           /\ l \in DOMAIN lockers' /\ ~lockers'[l].isOccupied)
          => HostedRentDelivered(l) ]_vars

\* a Locker status update answered on Locker l: nothing but l's status
\* field has changed
StepLockerStatusOnly(l) ==
    Responded("updateStatusLocker", l) =>
        /\ rents' = rents
        /\ DOMAIN lockers' = DOMAIN lockers
        /\ \A k \in DOMAIN lockers :
              /\ lockers'[k].isOccupied = lockers[k].isOccupied
              /\ lockers'[k].bloqId = lockers[k].bloqId
              /\ k # l => lockers'[k] = lockers[k]

\* the answer of createRent on Locker l follows from the Locker's being
\* there, its isOccupied and the Rents on record, its status not entering
StepCreateIgnoresStatus(l) ==
    Responded("createRent", l) =>
        IF ~LockerExists(l) THEN last'.error = "Error: Locker not found"
        ELSE IF lockers[l].isOccupied
             THEN last'.error = "Error: Locker is already occupied"
        ELSE /\ last'.error \in {"none", "UnavailableError"}
             /\ last'.error = "UnavailableError" => DOMAIN rents # {}

\* the answers of recordDropoff and recordPickup on an existing Rent r
\* follow from the Rent's status alone
StepRecordIgnoresStatus(r) ==
    /\ (Responded("recordDropoff", r) /\ RentExists(r)) =>
          (last'.error = "none" <=> rents[r].status = "WAITING_DROPOFF")
    /\ (Responded("recordPickup", r) /\ RentExists(r)) =>
          (last'.error = "none" <=> rents[r].status = "WAITING_PICKUP")

\* C19: updating a Locker's status changes only that Locker's status field
\* (isOccupied, bloqId and every Rent are unchanged), and the Locker status
\* is no precondition of createRent, recordDropoff or recordPickup.
LockerStatusIsIndependent ==
    [][ /\ \A l \in LockerIds : StepLockerStatusOnly(l) /\ StepCreateIgnoresStatus(l)
        /\ \A r \in RentIds : StepRecordIgnoresStatus(r) ]_vars

\* the status of an occupied Locker has been set to OPEN under a Rent that
\* is under way
OccupiedLockerOpenedSeen ==
    /\ last.op = "updateStatusLocker"
    /\ last.error = "none"
    /\ lockers[last.target].status = "OPEN"
    /\ lockers[last.target].isOccupied
    /\ \E r \in RentsOf(last.target) : rents[r].status \in ActiveStatus

\* a createLocker answered for Bloq b with generated ids id1, id2: an
\* absent Bloq fails at once; a free id1 is used; a taken id1 is retried
\* with id2, once; two collisions end with the given error; a record is
\* added only under a free id and no record on file is touched
CreateLockerOutcome(b, id1, id2, collisionError) ==
    IF b \notin bloqs
    THEN last'.error = "Error: Bloq not found" /\ lockers' = lockers
    ELSE IF ~LockerExists(id1)
    THEN last'.error = "none" /\ lockers' = Put(lockers, id1, NewLocker(b))
    ELSE IF ~LockerExists(id2)
    THEN last'.error = "none" /\ lockers' = Put(lockers, id2, NewLocker(b))
    ELSE last'.error = collisionError /\ lockers' = lockers

StepCreateLocker(collisionError) ==
    (last'.op = "createLocker" /\ script'.phase = "createLocker") =>
        /\ rents' = rents
        /\ CreateLockerOutcome(script'.replies[1], script'.replies[2],
                               script'.replies[3], collisionError)

\* C20 as stated: on an identifier collision the create is retried exactly
\* once with a fresh id; if the retry collides too the caller gets
\* UnavailableError; never are two records created or a record on file
\* overwritten; "Bloq not found" is not retried and propagates unchanged.
RetryOnceThenUnavailable == [][ StepCreateLocker("UnavailableError") ]_vars

\* C20 as amended: as above, the caller getting the retry's own
\* unique-constraint error (P2002) when the retry collides too.
RetryOnceThenCollisionError == [][ StepCreateLocker("P2002") ]_vars

\* both generated ids were taken and the create has failed, the records on
\* file being other than a new Locker's
DoubleCollisionSeen ==
    /\ last.op = "createLocker"
    /\ last.error = "P2002"
    /\ script.phase = "createLocker"
    /\ script.replies[1] \in bloqs
    /\ script.replies[2] # script.replies[3]
    /\ \A i \in {2, 3} : /\ LockerExists(script.replies[i])
                         /\ lockers[script.replies[i]] # NewLocker("B1")

\* every Rent on record references a Locker on record, and every Locker a
\* Bloq on record
ReferencesResolve ==
    /\ \A r \in DOMAIN rents : rents[r].lockerId \in DOMAIN lockers
    /\ \A l \in DOMAIN lockers : lockers[l].bloqId \in bloqs

\* a deleteLocker answered on Locker l: an absent Locker gives "Locker not
\* found" and nothing changes; no Rent is removed or altered
StepDeleteLocker(l) ==
    Responded("deleteLocker", l) =>
        /\ rents' = rents
        /\ ~LockerExists(l) =>
              last'.error = "Error: Locker not found" /\ lockers' = lockers

\* C21: referential integrity. After every step, deleteLocker included,
\* every Rent references one Locker that exists and every Locker a Bloq
\* that exists; deleting a Locker never leaves a Rent pointing at a missing
\* Locker, and deleting an absent Locker fails with "Locker not found"
\* without changing state.
ReferentialIntegrity ==
    [][ ReferencesResolve' /\ \A l \in LockerIds : StepDeleteLocker(l) ]_vars

\* the delete of a Locker that a Rent references has been refused, Locker
\* and Rent being still on record
ReferencedDeleteRefusedSeen ==
    /\ last.op = "deleteLocker"
    /\ last.error = "P2014"
    /\ LockerExists(last.target)
    /\ RentsOf(last.target) # {}
====
